---- MODULE Spec2Model ----
(***************************************************************************)
(* Model of src/fetch_data.py: the Coinbase Premium data fetcher.  One     *)
(* run of main() loads data.json, fetches the BTC price series and the two *)
(* spot prices, computes today's premium, merges it into the premium       *)
(* history and rewrites data.json.  The persisted file is the only state   *)
(* that survives a run.                                                     *)
(*                                                                         *)
(* Encoding.  Calendar days 'YYYY-MM-DD' are the integers 1..NumDays (the  *)
(* strings compare as the days do).  Python's None is the empty tuple and  *)
(* a number x held in an optional is <<x>>.  Spot prices are in units of   *)
(* 100 dollars (505 is $50,500; the premium depends on the ratio alone); a *)
(* premium is an integer count of 0.0001 %, so 1.0 % is 10000, computed    *)
(* exactly where the code computes in binary floating point.               *)
(* BTC prices of the feed are in tenths of a cent, rounded to cents.       *)
(***************************************************************************)
EXTENDS Integers, Sequences, FiniteSets, TLC

\* ---------------------------------------------------------------- bounds
\* The history window.  The code keeps the last 365 entries (lines
\* 148-150); the model scales the window down so that truncation is reached.
KEEP_LAST == 2
\* Calendar days the local clock can show: enough to overflow the window.
Days == 1..(KEEP_LAST + 1)
\* Values datetime.utcnow() can take.
Stamps == {1, 2}

\* ------------------------------------------------------------- optionals
None == << >>
Num(x) == << x >>
Val(o) == o[1]

Min(a, b) == IF a < b THEN a ELSE b

\* round(): n/d (d > 0) to the nearest integer, ties to even.  (On an exact
\* tie the code rounds the binary float, which lies to one side of it; the
\* inputs below hold no tie.)
Round(n, d) ==
    LET q == n \div d
        r == n % d
    IN  IF 2 * r < d THEN q
        ELSE IF 2 * r > d THEN q + 1
        ELSE IF q % 2 = 0 THEN q ELSE q + 1

\* list[-k:] for k > 0
LastK(s, k) == IF Len(s) <= k THEN s ELSE SubSeq(s, Len(s) - k + 1, Len(s))

\* x in list / list.index(x)
In(x, s) == \E i \in 1..Len(s) : s[i] = x
Index(x, s) == CHOOSE i \in 1..Len(s) : s[i] = x /\ \A j \in 1..(i - 1) : s[j] # x

\* ------------------------------------------------------------- the file
\* data.json: absent, present but not parseable ("corrupt": empty or cut
\* short), or a JSON object ("doc").  keys is which of premium_dates /
\* premium_index the object has.
NoFile ==
    [kind |-> "absent", dates |-> << >>, btc_prices |-> << >>, keys |-> {},
     premium_dates |-> << >>, premium_index |-> << >>, last_updated |-> 0]
Truncated == [NoFile EXCEPT !.kind = "corrupt"]
NoData == [NoFile EXCEPT !.kind = "None"]
BothKeys == {"premium_dates", "premium_index"}

VARIABLES
    file,            \* contents of DATA_FILE
    pc,              \* position of main()
    existing_data,   \* main's locals
    btc_prices,
    coinbase_price,
    binance_price,
    today_premium,
    premium_dates,
    premium_values,
    output,
    \* history variables, describing the current (or, at "start", the last) run
    calls,           \* functions and file operations the run has performed
    outcome,         \* how the last run ended
    start_file,      \* the file as the run found it
    merge,           \* the run's update_premium_history call: the premium
                     \* arrays of existing_data as passed, today, today_premium
    last             \* per day, premium of the latest completed run that had one

vars == << file, pc, existing_data, btc_prices, coinbase_price, binance_price,
           today_premium, premium_dates, premium_values, output,
           calls, outcome, start_file, merge, last >>

NoMerge == [called |-> FALSE, dates |-> << >>, values |-> << >>, today |-> 0,
            premium |-> None]

\* ------------------------------------------------------ inputs of a run
\* What the CoinGecko request can give: a failure (transport, status or
\* parse error), or 'prices': a list of [timestamp, price].  Timestamps are
\* in hours here; prices in tenths of a cent.
Responses ==
    { [ok |-> FALSE, prices |-> << >>],
      [ok |-> TRUE, prices |-> << >>],
      [ok |-> TRUE, prices |-> << <<0, 42000004>>, <<24, 43000006>> >>],
      [ok |-> TRUE, prices |-> << <<30, 43100017>>, <<1, 42100000>>, <<47, 43200023>> >>] }

\* What a spot request can give: None on any error, else the price.
CoinbaseQuotes == {None, Num(500), Num(505)}
BinanceQuotes == {None, Num(0), Num(500)}

\* --------------------------------------------------------- the functions
load_existing_data(f) == IF f.kind = "doc" THEN f ELSE NoData

\* datetime.fromtimestamp(ts).strftime('%Y-%m-%d')
DateOf(ts) == (ts \div 24) + 1

fetch_bitcoin_price(resp) ==
    IF ~resp.ok THEN << >>
    ELSE LET items == resp.prices
             n == Len(items)
             ds == {DateOf(items[i][1]) : i \in 1..n}
             lastOf(d) == CHOOSE i \in 1..n :
                              /\ DateOf(items[i][1]) = d
                              /\ \A j \in (i + 1)..n : DateOf(items[j][1]) # d
         IN  [d \in ds |-> Round(items[lastOf(d)][2], 10)]

\* calculate_premium with the None tests written as truth tests
\* (`if not coinbase_price or not binance_price`): a price of 0 counts as missing.
calculate_premium_truthy(cb, bn) ==
    IF cb = None \/ bn = None \/ cb = Num(0) \/ bn = Num(0) THEN None
    ELSE Num(Round((Val(cb) - Val(bn)) * 100 * 10000, Val(bn)))

calculate_premium(cb, bn) ==
    IF cb = None \/ bn = None THEN None
    ELSE IF Val(bn) = 0 THEN None
    ELSE Num(Round((Val(cb) - Val(bn)) * 100 * 10000, Val(bn)))

\* line 128 with `or` between the two key tests; a key that is absent
\* reads as an empty list.
Have_either(existing) == existing.kind = "doc" /\ existing.keys # {}

\* line 128: is there a history to start from
Have(existing) == existing.kind = "doc" /\ BothKeys \subseteq existing.keys

\* lines 136-145 without the membership test: today's value is always appended.
Merged_always_append(d0, v0, today, premium) ==
    IF premium = None THEN [raised |-> FALSE, dates |-> d0, values |-> v0]
    ELSE [raised |-> FALSE, dates |-> Append(d0, today),
          values |-> Append(v0, Val(premium))]

\* lines 136-145 where a missing premium starts the history afresh.
Merged_forget(d0, v0, today, premium) ==
    IF premium = None THEN [raised |-> FALSE, dates |-> << >>, values |-> << >>]
    ELSE IF ~In(today, d0)
    THEN [raised |-> FALSE, dates |-> Append(d0, today),
          values |-> Append(v0, Val(premium))]
    ELSE IF Index(today, d0) > Len(v0)
    THEN [raised |-> TRUE, dates |-> d0, values |-> v0]
    ELSE [raised |-> FALSE, dates |-> d0,
          values |-> [v0 EXCEPT ![Index(today, d0)] = Val(premium)]]

\* lines 136-145: today's value appended, or written over today's entry.
\* raised is the IndexError of line 144 on a history whose values are
\* shorter than its dates.
Merged(d0, v0, today, premium) ==
    IF premium = None THEN [raised |-> FALSE, dates |-> d0, values |-> v0]
    ELSE IF ~In(today, d0)
    THEN [raised |-> FALSE, dates |-> Append(d0, today),
          values |-> Append(v0, Val(premium))]
    ELSE IF Index(today, d0) > Len(v0)
    THEN [raised |-> TRUE, dates |-> d0, values |-> v0]
    ELSE [raised |-> FALSE, dates |-> d0,
          values |-> [v0 EXCEPT ![Index(today, d0)] = Val(premium)]]

\* lines 148-150 with the slice one too long.
Cut_off_by_one(dates, values) ==
    IF Len(dates) > KEEP_LAST
    THEN [dates |-> LastK(dates, KEEP_LAST + 1), values |-> LastK(values, KEEP_LAST + 1)]
    ELSE [dates |-> dates, values |-> values]

\* lines 148-150 without line 150: only the dates are cut.
Cut_dates_only(dates, values) ==
    IF Len(dates) > KEEP_LAST
    THEN [dates |-> LastK(dates, KEEP_LAST), values |-> values]
    ELSE [dates |-> dates, values |-> values]

\* lines 148-150 with [:365] for [-365:]: the oldest entries are kept.
Cut_oldest(dates, values) ==
    IF Len(dates) > KEEP_LAST
    THEN [dates |-> SubSeq(dates, 1, KEEP_LAST),
          values |-> SubSeq(values, 1, Min(KEEP_LAST, Len(values)))]
    ELSE [dates |-> dates, values |-> values]

\* lines 148-150
Cut(dates, values) ==
    IF Len(dates) > KEEP_LAST
    THEN [dates |-> LastK(dates, KEEP_LAST), values |-> LastK(values, KEEP_LAST)]
    ELSE [dates |-> dates, values |-> values]

\* The result of update_premium_history: whether it raised, the returned
\* pair, and existing_data as the call leaves it (append and replace act on
\* the loaded lists in place; the slices of lines 149-150 are new lists).
update_premium_history(existing, today, premium) ==
    LET d0 == IF Have(existing) THEN existing.premium_dates ELSE << >>
        v0 == IF Have(existing) THEN existing.premium_index ELSE << >>
        m == Merged(d0, v0, today, premium)
        c == Cut(m.dates, m.values)
    IN  [raised |-> m.raised, dates |-> c.dates, values |-> c.values,
         existing |-> IF Have(existing)
                      THEN [existing EXCEPT !.premium_dates = m.dates,
                                            !.premium_index = m.values]
                      ELSE existing]

\* sorted(btc_prices.keys())
SortedKeys(d) ==
    LET S == DOMAIN d
    IN  CHOOSE s \in [1..Cardinality(S) -> S] :
            \A i, j \in 1..Cardinality(S) : i < j => s[i] < s[j]

\* lines 180-190
Output(prices, pdates, pvalues, stamp) ==
    LET dates == SortedKeys(prices)
    IN  [kind |-> "doc", dates |-> dates,
         btc_prices |-> [i \in 1..Len(dates) |-> prices[dates[i]]],
         keys |-> BothKeys, premium_dates |-> pdates, premium_index |-> pvalues,
         last_updated |-> stamp]

\* ------------------------------------------------------------ the runs
InitLocals ==
    /\ pc = "start"
    /\ existing_data = NoData
    /\ btc_prices = << >>
    /\ coinbase_price = None
    /\ binance_price = None
    /\ today_premium = None
    /\ premium_dates = << >>
    /\ premium_values = << >>
    /\ output = NoFile
    /\ calls = {}
    /\ outcome = "none"
    /\ merge = NoMerge
    /\ last = [d \in Days |-> None]

Init ==
    /\ file = NoFile
    /\ start_file = NoFile
    /\ InitLocals

\* The process ends: its locals are gone, the file stays.
Exit(how) ==
    /\ pc' = "start"
    /\ existing_data' = NoData
    /\ btc_prices' = << >>
    /\ coinbase_price' = None
    /\ binance_price' = None
    /\ today_premium' = None
    /\ premium_dates' = << >>
    /\ premium_values' = << >>
    /\ output' = NoFile
    /\ outcome' = how

\* line 159
Load ==
    /\ pc = "start"
    /\ existing_data' = load_existing_data(file)
    /\ pc' = "fetch_bitcoin_price"
    /\ calls' = {"load_existing_data"}
    /\ outcome' = "running"
    /\ start_file' = file
    /\ merge' = NoMerge
    /\ UNCHANGED << file, btc_prices, coinbase_price, binance_price, today_premium,
                    premium_dates, premium_values, output, last >>

\* line 162
FetchBitcoin ==
    /\ pc = "fetch_bitcoin_price"
    /\ \E resp \in Responses : btc_prices' = fetch_bitcoin_price(resp)
    /\ pc' = "check_prices"
    /\ calls' = calls \cup {"fetch_bitcoin_price"}
    /\ UNCHANGED << file, existing_data, coinbase_price, binance_price, today_premium,
                    premium_dates, premium_values, output, outcome, start_file,
                    merge, last >>

\* lines 164-166 without the return: the run goes on with no prices.
ReturnNoPrices_falls_through ==
    /\ pc = "check_prices"
    /\ btc_prices = << >>
    /\ \E q \in CoinbaseQuotes : coinbase_price' = q
    /\ pc' = "fetch_binance_price"
    /\ calls' = calls \cup {"fetch_coinbase_price"}
    /\ UNCHANGED << file, existing_data, btc_prices, binance_price, today_premium,
                    premium_dates, premium_values, output, outcome, start_file,
                    merge, last >>

\* lines 164-166
ReturnNoPrices ==
    /\ pc = "check_prices"
    /\ btc_prices = << >>
    /\ Exit("no_prices")
    /\ UNCHANGED << file, calls, start_file, merge, last >>

\* line 169
FetchCoinbase ==
    /\ pc = "check_prices"
    /\ btc_prices # << >>
    /\ \E q \in CoinbaseQuotes : coinbase_price' = q
    /\ pc' = "fetch_binance_price"
    /\ calls' = calls \cup {"fetch_coinbase_price"}
    /\ UNCHANGED << file, existing_data, btc_prices, binance_price, today_premium,
                    premium_dates, premium_values, output, outcome, start_file,
                    merge, last >>

\* line 170
FetchBinance ==
    /\ pc = "fetch_binance_price"
    /\ \E q \in BinanceQuotes : binance_price' = q
    /\ pc' = "calculate_premium"
    /\ calls' = calls \cup {"fetch_binance_price"}
    /\ UNCHANGED << file, existing_data, btc_prices, coinbase_price, today_premium,
                    premium_dates, premium_values, output, outcome, start_file,
                    merge, last >>

\* line 173
Calculate ==
    /\ pc = "calculate_premium"
    /\ today_premium' = calculate_premium(coinbase_price, binance_price)
    /\ pc' = "update_premium_history"
    /\ calls' = calls \cup {"calculate_premium"}
    /\ UNCHANGED << file, existing_data, btc_prices, coinbase_price, binance_price,
                    premium_dates, premium_values, output, outcome, start_file,
                    merge, last >>

\* line 176; today is datetime.now() of line 125
Update ==
    /\ pc = "update_premium_history"
    /\ \E today \in Days :
         LET r == update_premium_history(existing_data, today, today_premium)
         IN  /\ merge' = [called |-> TRUE,
                          dates |-> existing_data.premium_dates,
                          values |-> existing_data.premium_index,
                          today |-> today, premium |-> today_premium]
             /\ calls' = calls \cup {"update_premium_history"}
             /\ IF r.raised
                THEN /\ Exit("raised")
                     /\ UNCHANGED << file, start_file, last >>
                ELSE /\ premium_dates' = r.dates
                     /\ premium_values' = r.values
                     /\ existing_data' = r.existing
                     /\ pc' = "open"
                     /\ UNCHANGED << file, btc_prices, coinbase_price, binance_price,
                                     today_premium, output, outcome, start_file, last >>

\* line 192 opening with mode 'a': the file is not emptied.
OpenFile_append ==
    /\ pc = "open"
    /\ \E stamp \in Stamps :
         output' = Output(btc_prices, premium_dates, premium_values, stamp)
    /\ file' = file
    /\ pc' = "dump"
    /\ calls' = calls \cup {"open"}
    /\ UNCHANGED << existing_data, btc_prices, coinbase_price, binance_price,
                    today_premium, premium_dates, premium_values, outcome,
                    start_file, merge, last >>

\* lines 180-192: the document is built, then open(DATA_FILE, 'w') empties
\* the file
OpenFile ==
    /\ pc = "open"
    /\ \E stamp \in Stamps :
         output' = Output(btc_prices, premium_dates, premium_values, stamp)
    /\ file' = Truncated
    /\ pc' = "dump"
    /\ calls' = calls \cup {"open"}
    /\ UNCHANGED << existing_data, btc_prices, coinbase_price, binance_price,
                    today_premium, premium_dates, premium_values, outcome,
                    start_file, merge, last >>

\* line 192 raising (the file cannot be opened for writing)
OpenFails ==
    /\ pc = "open"
    /\ Exit("write_failed")
    /\ UNCHANGED << file, calls, start_file, merge, last >>

\* line 193 and the prints after it: the run completes
Dump ==
    /\ pc = "dump"
    /\ file' = output
    /\ calls' = calls \cup {"dump"}
    /\ last' = IF merge.premium # None
               THEN [last EXCEPT ![merge.today] = merge.premium]
               ELSE last
    /\ Exit("saved")
    /\ UNCHANGED << start_file, merge >>

\* the process dies, or the write fails, between open and the end of dump
Crash ==
    /\ pc = "dump"
    /\ Exit("crashed")
    /\ UNCHANGED << file, calls, start_file, merge, last >>

Next ==
    \/ Load
    \/ FetchBitcoin
    \/ ReturnNoPrices
    \/ FetchCoinbase
    \/ FetchBinance
    \/ Calculate
    \/ Update
    \/ OpenFile
    \/ OpenFails
    \/ Dump
    \/ Crash

Spec == Init /\ [][Next]_vars

\* A data.json that this program did not necessarily write: absent,
\* unparseable, or an object with any of the two premium keys, whose arrays
\* may be longer than the window, misaligned, unsorted or hold a day twice.
FileValues == {5000, 0}
SeqsUpTo(S, n) == UNION {[1..k -> S] : k \in 0..n}
AnyFiles ==
    {NoFile, Truncated} \cup
    { [kind |-> "doc", dates |-> << 1 >>, btc_prices |-> << 4100000 >>, keys |-> ks,
       premium_dates |-> ds, premium_index |-> vs, last_updated |-> 1] :
        ks \in SUBSET BothKeys,
        ds \in SeqsUpTo(Days, KEEP_LAST + 1),
        vs \in SeqsUpTo(FileValues, KEEP_LAST + 1) }

InitAny ==
    /\ file \in { f \in AnyFiles :
                    /\ "premium_dates" \notin f.keys => f.premium_dates = << >>
                    /\ "premium_index" \notin f.keys => f.premium_index = << >> }
    /\ start_file = file
    /\ InitLocals

\* One run of main() on such a file.
NextAny ==
    \/ (outcome = "none" /\ Load)
    \/ FetchBitcoin
    \/ ReturnNoPrices
    \/ FetchCoinbase
    \/ FetchBinance
    \/ Calculate
    \/ Update
    \/ OpenFile
    \/ OpenFails
    \/ Dump
    \/ Crash

SpecAny == InitAny /\ [][NextAny]_vars

\* The premium step on a wider grid of quotes: main() just after both spot
\* fetches, on a first run.
QuoteGrid == {None} \cup {Num(p) : p \in {0, 3, 95, 100, 105, 500, 505}}

InitCalc ==
    /\ file = NoFile
    /\ start_file = NoFile
    /\ pc = "calculate_premium"
    /\ existing_data = NoData
    /\ \E resp \in Responses :
         /\ fetch_bitcoin_price(resp) # << >>
         /\ btc_prices = fetch_bitcoin_price(resp)
    /\ coinbase_price \in QuoteGrid
    /\ binance_price \in QuoteGrid
    /\ today_premium = None
    /\ premium_dates = << >>
    /\ premium_values = << >>
    /\ output = NoFile
    /\ calls = {"load_existing_data", "fetch_bitcoin_price", "fetch_coinbase_price",
                "fetch_binance_price"}
    /\ outcome = "running"
    /\ merge = NoMerge
    /\ last = [d \in Days |-> None]

NextCalc ==
    \/ Calculate
    \/ Update
    \/ OpenFile
    \/ OpenFails
    \/ Dump
    \/ Crash

SpecCalc == InitCalc /\ [][NextCalc]_vars

\* ================================================================ claims
Saved == pc = "start" /\ outcome = "saved"
Merging == pc \in {"open", "dump"}

\* The premium history a run found: the arrays of the loaded document when
\* it parsed and has both keys, and nothing otherwise.
FoundBoth == start_file.kind = "doc" /\ start_file.keys = BothKeys
LoadedDates == IF FoundBoth THEN start_file.premium_dates ELSE << >>
LoadedValues == IF FoundBoth THEN start_file.premium_index ELSE << >>

Unique(s) == \A i, j \in 1..Len(s) : i # j => s[i] # s[j]
Increasing(s) == \A i, j \in 1..Len(s) : i < j => s[i] < s[j]
ValidHistory(ds, vs) == Len(ds) = Len(vs) /\ Len(ds) <= KEEP_LAST /\ Unique(ds)

\* The document holds a fetched price series, dates ascending.
HoldsFetchedSeries(f) ==
    \E resp \in Responses :
        LET d == fetch_bitcoin_price(resp)
        IN  /\ d # << >>
            /\ DOMAIN f.dates = 1..Cardinality(DOMAIN d)
            /\ {f.dates[i] : i \in DOMAIN f.dates} = DOMAIN d
            /\ Increasing(f.dates)
            /\ f.btc_prices = [i \in DOMAIN f.dates |-> d[f.dates[i]]]

\* C1: starting from an absent file, the persisted premium history never
\* holds more than KEEP_LAST (the code's 365) entries, however many runs
\* on distinct days have completed.
C1_CapInvariant ==
    /\ Len(file.premium_dates) <= KEEP_LAST
    /\ Len(file.premium_index) <= KEEP_LAST

\* More completed runs with a premium, on distinct days, than the window
\* holds; the last one appended to a full history.
C1_Witness ==
    /\ Saved
    /\ \A d \in Days : last[d] # None
    /\ merge.premium # None
    /\ Len(merge.dates) = KEEP_LAST
    /\ ~In(merge.today, merge.dates)
    /\ Len(file.premium_dates) = KEEP_LAST

\* C2: starting from an absent file, the persisted premium_dates are
\* strictly increasing and hold no date twice, each run taking today from
\* the local clock.
C2_StrictlyIncreasing ==
    file.kind = "doc" => Increasing(file.premium_dates) /\ Unique(file.premium_dates)

\* C3: starting from an absent file, premium_dates and premium_index have
\* the same length, and premium_index[i] is the premium of the latest
\* completed run that had one on the day premium_dates[i].
C3_Aligned ==
    file.kind = "doc" =>
        /\ Len(file.premium_dates) = Len(file.premium_index)
        /\ \A i \in 1..Len(file.premium_dates) :
               last[file.premium_dates[i]] = Num(file.premium_index[i])

\* A saved run that wrote over an entry that is not the last one, with a
\* different value, after some day had been cut off the history.
C3_Witness ==
    /\ Saved
    /\ Len(file.premium_dates) = KEEP_LAST
    /\ \A d \in Days : last[d] # None
    /\ merge.premium # None
    /\ In(merge.today, LoadedDates)
    /\ Index(merge.today, LoadedDates) < Len(LoadedDates)
    /\ LoadedValues[Index(merge.today, LoadedDates)] # Val(merge.premium)

\* A run whose update_premium_history call got today_premium = None.
SkipRun == merge.called /\ merge.premium = None

SpotMissing ==
    coinbase_price = None \/ binance_price = None \/ binance_price = Num(0)

\* C4 as claimed: with today_premium = None update_premium_history returns
\* the history it was given, whatever that history is; so a run whose spot
\* fetch failed (or whose Binance price is 0) completes and saves the new
\* price series with the premium history it loaded.  Stated here on the
\* histories that are aligned and hold no date twice, of any length.
C4_SkipReturnsLoaded ==
    /\ (Merging /\ SpotMissing) => SkipRun
    /\ (SkipRun /\ Len(LoadedDates) = Len(LoadedValues) /\ Unique(LoadedDates)) =>
        /\ outcome # "raised"
        /\ Merging => /\ premium_dates = LoadedDates
                      /\ premium_values = LoadedValues
        /\ Saved => /\ file.premium_dates = LoadedDates
                    /\ file.premium_index = LoadedValues
                    /\ HoldsFetchedSeries(file)

\* C4 as the code has it: the history is returned unchanged when its dates
\* fit the window; a longer one still loses all but the last KEEP_LAST
\* entries of each array (lines 148-150 run whether or not a value came).
C4_SkipKeepsWindow ==
    LET cut == Len(LoadedDates) > KEEP_LAST
        ds == IF cut THEN LastK(LoadedDates, KEEP_LAST) ELSE LoadedDates
        vs == IF cut THEN LastK(LoadedValues, KEEP_LAST) ELSE LoadedValues
    IN  /\ (Merging /\ SpotMissing) => SkipRun
        /\ SkipRun =>
            /\ outcome # "raised"
            /\ Merging => premium_dates = ds /\ premium_values = vs
            /\ Saved => /\ file.premium_dates = ds
                        /\ file.premium_index = vs
                        /\ HoldsFetchedSeries(file)

\* A saved run without a premium, on a file holding a full history and
\* another price series.
C4_Witness ==
    /\ Saved
    /\ SkipRun
    /\ Len(LoadedDates) = KEEP_LAST
    /\ file.premium_dates = LoadedDates
    /\ file.btc_prices # start_file.btc_prices

\* C5: for a valid history H and a point (d, v), v not None, d not among
\* H's dates, update_premium_history returns min(len(H) + 1, KEEP_LAST)
\* entries, the last one (d, v), before it the most recent entries of H in
\* their order.
C5_AppendNewDay ==
    (/\ Merging
     /\ FoundBoth
     /\ ValidHistory(LoadedDates, LoadedValues)
     /\ merge.premium # None
     /\ ~In(merge.today, LoadedDates))
    => LET n == Min(Len(LoadedDates) + 1, KEEP_LAST)
       IN  /\ Len(premium_dates) = n
           /\ Len(premium_values) = n
           /\ premium_dates[n] = merge.today
           /\ premium_values[n] = Val(merge.premium)
           /\ SubSeq(premium_dates, 1, n - 1) = LastK(LoadedDates, n - 1)
           /\ SubSeq(premium_values, 1, n - 1) = LastK(LoadedValues, n - 1)

\* A new day appended to a full valid history: the oldest entry goes.
C5_Witness ==
    /\ Merging
    /\ FoundBoth
    /\ ValidHistory(LoadedDates, LoadedValues)
    /\ Len(LoadedDates) = KEEP_LAST
    /\ merge.premium # None
    /\ ~In(merge.today, LoadedDates)
    /\ premium_dates[KEEP_LAST] = merge.today
    /\ premium_dates[1] = LoadedDates[2]

\* The values calculate_premium gives on the quotes of a run.
PremiumValues ==
    {Val(calculate_premium(c, b)) :
        c \in {x \in CoinbaseQuotes : x # None},
        b \in {x \in BinanceQuotes : x # None /\ x # Num(0)}}

DocWith(ds, vs) ==
    [kind |-> "doc", dates |-> << >>, btc_prices |-> << >>, keys |-> BothKeys,
     premium_dates |-> ds, premium_index |-> vs, last_updated |-> 0]

\* C6: for a valid history H, a day d among its dates and v not None,
\* update_premium_history returns H's dates, and H's values with v at d's
\* position; and a call with v1 followed, on its result, by a call with v
\* returns what the one call with v returns.
C6_SameDayReplaces ==
    (/\ Merging
     /\ FoundBoth
     /\ ValidHistory(LoadedDates, LoadedValues)
     /\ merge.premium # None
     /\ In(merge.today, LoadedDates))
    => /\ premium_dates = LoadedDates
       /\ Len(premium_values) = Len(LoadedValues)
       /\ \A i \in 1..Len(LoadedDates) :
              premium_values[i] = IF LoadedDates[i] = merge.today
                                  THEN Val(merge.premium)
                                  ELSE LoadedValues[i]
       /\ \A v1 \in PremiumValues :
              LET r1 == update_premium_history(DocWith(LoadedDates, LoadedValues),
                                               merge.today, Num(v1))
                  r2 == update_premium_history(DocWith(r1.dates, r1.values),
                                               merge.today, merge.premium)
              IN  /\ ~r1.raised /\ ~r2.raised
                  /\ r2.dates = premium_dates
                  /\ r2.values = premium_values

\* A value written over another one, in a history with other entries.
C6_Witness ==
    /\ Merging
    /\ FoundBoth
    /\ ValidHistory(LoadedDates, LoadedValues)
    /\ Len(LoadedDates) = KEEP_LAST
    /\ merge.premium # None
    /\ In(merge.today, LoadedDates)
    /\ LoadedValues[Index(merge.today, LoadedDates)] # Val(merge.premium)
    /\ premium_values # LoadedValues

\* C7: when fetch_bitcoin_price has returned an empty series, main's next
\* step is to return: the file is what the run found and stays so, and the
\* run has made no spot fetch, no merge and no write.
C7_AbortBeforeWrite ==
    [][(pc = "check_prices" /\ btc_prices = << >>)
       => /\ pc' = "start"
          /\ outcome' = "no_prices"
          /\ file = start_file
          /\ file' = file
          /\ calls' = {"load_existing_data", "fetch_bitcoin_price"}
          /\ ~merge'.called]_vars

\* A run has ended so, over a file that holds a premium history.
C7_Witness ==
    /\ pc = "start"
    /\ outcome = "no_prices"
    /\ file.kind = "doc"
    /\ file.premium_dates # << >>
    /\ file = start_file

\* C8 as claimed: at every point of a run, a crash between open and the
\* end of the dump included, the file holds the complete snapshot the run
\* found or the complete new one, so an interrupted write loses no history.
C8_AtomicRewrite ==
    start_file.kind = "doc" =>
        \/ file = start_file
        \/ Saved /\ file.kind = "doc"

\* C8 as the code has it: the file is rewritten in place.  Up to the open
\* it is what the run found; from the open to the end of the dump it is
\* empty or cut short, and stays so if the run ends there; only a run that
\* completes leaves the new snapshot.  A later run loads a file cut short
\* as None and merges into an empty history.
C8_RewriteInPlace ==
    /\ (outcome = "running" /\ pc # "dump") => file = start_file
    /\ pc = "dump" => file = Truncated
    /\ outcome = "crashed" => file = Truncated
    /\ outcome \in {"no_prices", "write_failed", "raised"} => file = start_file
    /\ Saved => /\ file.kind = "doc"
                /\ file.keys = BothKeys
                /\ HoldsFetchedSeries(file)
    /\ (start_file.kind = "corrupt" /\ outcome = "running")
           => existing_data.kind = "None"
    /\ (start_file.kind = "corrupt" /\ Saved)
           => file.premium_dates = (IF merge.premium = None THEN << >>
                                    ELSE << merge.today >>)

\* A run that found a premium history died between open and the end of the
\* dump: the history is gone.
C8_Witness ==
    /\ outcome = "crashed"
    /\ start_file.kind = "doc"
    /\ start_file.premium_dates # << >>
    /\ file = Truncated

C10_PremiumOrNone ==
    ("calculate_premium" \in calls /\ outcome = "running") =>
        /\ today_premium = None <=> SpotMissing
        /\ today_premium # None => Len(today_premium) = 1
        /\ (~SpotMissing /\ coinbase_price = binance_price) => today_premium = Num(0)
        /\ (coinbase_price = Num(505) /\ binance_price = Num(500))
               => today_premium = Num(10000)
        /\ Merging => (premium_dates = (IF SpotMissing THEN << >> ELSE << merge.today >>))

\* Coinbase at 0 against a Binance price: a number, -100 %, entered in the
\* history.
C10_Witness ==
    /\ Merging
    /\ coinbase_price = Num(0)
    /\ binance_price = Num(100)
    /\ today_premium = Num(-1000000)
    /\ premium_values = << -1000000 >>
====
